---- MODULE Spec2Model ----
(***************************************************************************)
(* Model of the completion layer of core/src/layers/complete.rs:           *)
(* CompleteLayer, CompleteAccessor, CompleteReader and CompleteWriter.     *)
(* The inner backend (accessor, streams, sinks, listers) is the            *)
(* environment: each of its calls succeeds or fails nondeterministically.  *)
(***************************************************************************)
EXTENDS Integers, Sequences, FiniteSets, TLC

(* ---------------------------------------------------------------------- *)
(* Bounds of the model                                                     *)
(* ---------------------------------------------------------------------- *)
\* longest chunk handed to a writer or produced by an inner stream
MaxChunk == 2
\* largest content length an inner close reports / a request declares
MaxLen == 2
\* number of calls made on one writer
MaxWriterOps == 3
\* number of calls made on one reader
MaxReaderOps == 4
\* number of failures the backend injects into one lister
MaxListerErrors == 2

(* ---------------------------------------------------------------------- *)
(* Option, Result, Error, Metadata                                         *)
(* ---------------------------------------------------------------------- *)
None == <<>>
Some(x) == <<x>>
IsSome(o) == Len(o) = 1
Unwrap(o) == o[1]

\* Error::new(kind, message) followed by with_context calls
Error(kind, msg, ctx) == [kind |-> kind, msg |-> msg, ctx |-> ctx]
NoError == Error("", "", <<>>)

\* a value that carries nothing: (), RpCreateDir::default(), ...
Unit == [mode |-> "", content_length |-> 0]
Metadata(mode, content_length) == [mode |-> mode, content_length |-> content_length]

Ok(v) == [ok |-> TRUE, val |-> v, err |-> NoError]
Err(e) == [ok |-> FALSE, val |-> Unit, err |-> e]

\* errors the inner backend may return; the layer produces none of them
InnerErrors ==
    { Error("RateLimited", "inner: try again", <<>>),
      Error("PermissionDenied", "inner: denied", <<>>) }

\* the error of every call on a writer whose inner sink is gone
ClosedError == Error("Unexpected", "writer has been closed or aborted", <<>>)

(* ---------------------------------------------------------------------- *)
(* State                                                                   *)
(* ---------------------------------------------------------------------- *)
VARIABLES
    backend_cap,  \* the capability the backend declared
    info,         \* AccessorInfo shared with the backend: native and full view
    layered,      \* CompleteLayer::layer has built the CompleteAccessor
    a_last,       \* the last call on the CompleteAccessor: inner calls, result
    writer,       \* CompleteWriter { inner, append, size }
    w_args,       \* the OpWrite the writer was opened with, None before
    w_hist,       \* the calls made on the writer, in order
    reader,       \* CompleteReader { size, read }
    r_args,       \* the OpRead the reader was opened with, None before
    r_hist,       \* the calls made on the reader, in order
    lister,       \* the CompleteLister the last list call returned
    l_log         \* what that lister did: inner calls, entries pulled and yielded

vars == <<backend_cap, info, layered, a_last, writer, w_args, w_hist,
          reader, r_args, r_hist, lister, l_log>>

acc_vars == <<backend_cap, info, layered, a_last>>
writer_vars == <<writer, w_args, w_hist>>
reader_vars == <<reader, r_args, r_hist>>
lister_vars == <<lister, l_log>>

(* ---------------------------------------------------------------------- *)
(* Capabilities and paths                                                  *)
(* ---------------------------------------------------------------------- *)
Capability ==
    [create_dir : BOOLEAN, list : BOOLEAN,
     list_with_recursive : BOOLEAN, write_can_empty : BOOLEAN]

\* a path is the sequence of its characters
Root == <<"/">>
EndsWithSlash(path) == Len(path) > 0 /\ path[Len(path)] = "/"

\* a call the layer makes on the inner accessor
InnerCall(op, path, recursive, limit) ==
    [op |-> op, path |-> path, recursive |-> recursive, limit |-> limit]

\* what one call on the CompleteAccessor did: the inner calls, what each of
\* them returned, the result
AccCall(op, path, recursive, calls, answers, ret) ==
    [op |-> op, path |-> path, recursive |-> recursive, calls |-> calls,
     answers |-> answers, ret |-> ret]

StartsWith(s, prefix) ==
    Len(prefix) <= Len(s) /\ SubSeq(s, 1, Len(prefix)) = prefix

\* get_parent: the path up to and including its last "/", empty for a bare name
get_parent(path) ==
    LET slashes == {i \in 1..Len(path) : path[i] = "/"}
    IN IF slashes = {} THEN <<>>
       ELSE SubSeq(path, 1, CHOOSE i \in slashes : \A j \in slashes : j <= i)

\* the paths the caller uses
pD == <<"d", "/">>
pDa == <<"d", "/", "a">>
pDab == <<"d", "/", "a", "b">>
pDac == <<"d", "/", "a", "c">>
pDb == <<"d", "/", "b", "/">>
pDbc == <<"d", "/", "b", "/", "c">>
pX == <<"x", "/">>
pBare == <<"d">>
Paths == {Root, pD, pDa, pDab, pDb, pX, pBare}

(* ---------------------------------------------------------------------- *)
(* The backend's entries and its listers                                   *)
(* ---------------------------------------------------------------------- *)
Entry(path, mode) == [path |-> path, mode |-> mode]

\* what the backend holds, in the order its listings produce it
StoreKeys ==
    << Entry(pD, "DIR"), Entry(pDab, "FILE"), Entry(pDb, "DIR"),
       Entry(pDbc, "FILE"), Entry(pDac, "FILE") >>

\* key lies directly under base: nothing follows its first "/" after base
IsChild(key, base) ==
    \A i \in (Len(base) + 1)..(Len(key) - 1) : key[i] # "/"

\* the entries an inner list call at path produces
Listing(path, recursive) ==
    LET base == IF path = Root THEN <<>> ELSE path
        Listed(e) == /\ StartsWith(e.path, base)
                     /\ e.path # base
                     /\ recursive \/ IsChild(e.path, base)
    IN SelectSeq(StoreKeys, Listed)

OkEntry(o) == [ok |-> TRUE, val |-> o, err |-> NoError]
ErrEntry(e) == [ok |-> FALSE, val |-> None, err |-> e]

\* what one next() did: the lister afterwards, the result, the number of calls
\* made on the backend so far, the entries pulled from backend listers and
\* the list calls made on the inner accessor
Eff(l, ret, n, pulled, calls) ==
    [l |-> l, ret |-> ret, n |-> n, pulled |-> pulled, calls |-> calls]

\* a lister of the backend over the entries it has not produced yet
InnerLister(entries) == [rest |-> entries]

\* next() of a backend lister; the call numbered errAt fails with e
inner_next(l, n, errAt, e, pulled, calls) ==
    IF n + 1 = errAt THEN Eff(l, ErrEntry(e), n + 1, pulled, calls)
    ELSE IF l.rest = <<>> THEN Eff(l, OkEntry(None), n + 1, pulled, calls)
    ELSE Eff(InnerLister(Tail(l.rest)), OkEntry(Some(Head(l.rest))), n + 1,
             Append(pulled, Head(l.rest)), calls)

\* FlatLister::new
FlatLister(root) == [root |-> root, started |-> FALSE, stack |-> <<>>]

\* FlatLister::next: depth first over a stack of open directory listers
RECURSIVE flat_next(_, _, _, _, _, _)
\* a traversal that yields a directory it could not open and goes on
flat_next_skip_unopened(f, n, errAt, e, pulled, calls) ==
    IF ~f.started
    THEN LET call == InnerCall("list", f.root, FALSE, None)
         IN IF n + 1 = errAt
            THEN Eff(f, ErrEntry(e), n + 1, pulled, Append(calls, call))
            ELSE flat_next([f EXCEPT !.started = TRUE,
                                     !.stack = <<InnerLister(Listing(f.root, FALSE))>>],
                           n + 1, errAt, e, pulled, Append(calls, call))
    ELSE IF f.stack = <<>> THEN Eff(f, OkEntry(None), n, pulled, calls)
    ELSE LET top == Len(f.stack)
             r == inner_next(f.stack[top], n, errAt, e, pulled, calls)
             g == [f EXCEPT !.stack[top] = r.l]
         IN IF ~r.ret.ok THEN Eff(g, r.ret, r.n, r.pulled, r.calls)
            ELSE IF r.ret.val = None
                 THEN flat_next([f EXCEPT !.stack = SubSeq(f.stack, 1, top - 1)],
                                r.n, errAt, e, r.pulled, r.calls)
            ELSE IF Unwrap(r.ret.val).mode # "DIR"
                 THEN Eff(g, r.ret, r.n, r.pulled, r.calls)
            ELSE LET dir == Unwrap(r.ret.val).path
                     call == InnerCall("list", dir, FALSE, None)
                 IN IF r.n + 1 = errAt
                    THEN Eff(g, r.ret, r.n + 1, r.pulled, Append(r.calls, call))
                    ELSE Eff([g EXCEPT !.stack = Append(g.stack, InnerLister(Listing(dir, FALSE)))],
                             r.ret, r.n + 1, r.pulled, Append(r.calls, call))

flat_next(f, n, errAt, e, pulled, calls) ==
    IF ~f.started
    THEN LET call == InnerCall("list", f.root, FALSE, None)
         IN IF n + 1 = errAt
            THEN Eff(f, ErrEntry(e), n + 1, pulled, Append(calls, call))
            ELSE flat_next([f EXCEPT !.started = TRUE,
                                     !.stack = <<InnerLister(Listing(f.root, FALSE))>>],
                           n + 1, errAt, e, pulled, Append(calls, call))
    ELSE IF f.stack = <<>> THEN Eff(f, OkEntry(None), n, pulled, calls)
    ELSE LET top == Len(f.stack)
             r == inner_next(f.stack[top], n, errAt, e, pulled, calls)
             g == [f EXCEPT !.stack[top] = r.l]
         IN IF ~r.ret.ok THEN Eff(g, r.ret, r.n, r.pulled, r.calls)
            ELSE IF r.ret.val = None
                 THEN flat_next([f EXCEPT !.stack = SubSeq(f.stack, 1, top - 1)],
                                r.n, errAt, e, r.pulled, r.calls)
            ELSE IF Unwrap(r.ret.val).mode # "DIR"
                 THEN Eff(g, r.ret, r.n, r.pulled, r.calls)
            ELSE LET dir == Unwrap(r.ret.val).path
                     call == InnerCall("list", dir, FALSE, None)
                 IN IF r.n + 1 = errAt
                    THEN Eff(g, ErrEntry(e), r.n + 1, r.pulled, Append(r.calls, call))
                    ELSE Eff([g EXCEPT !.stack = Append(g.stack, InnerLister(Listing(dir, FALSE)))],
                             r.ret, r.n + 1, r.pulled, Append(r.calls, call))

\* PrefixLister::new over a backend lister (flat = FALSE) or a FlatLister
PrefixLister(l, prefix, flat) == [lister |-> l, prefix |-> prefix, flat |-> flat]

\* PrefixLister::next: pull until an entry starts with the prefix
RECURSIVE prefix_next(_, _, _, _, _, _)
prefix_next(pl, n, errAt, e, pulled, calls) ==
    LET r == IF pl.flat THEN flat_next(pl.lister, n, errAt, e, pulled, calls)
             ELSE inner_next(pl.lister, n, errAt, e, pulled, calls)
        nl == [pl EXCEPT !.lister = r.l]
    IN IF r.ret.ok /\ r.ret.val # None /\ ~StartsWith(Unwrap(r.ret.val).path, pl.prefix)
       THEN prefix_next(nl, r.n, errAt, e, r.pulled, r.calls)
       ELSE Eff(nl, r.ret, r.n, r.pulled, r.calls)

\* CompleteLister = FourWays<P, FlatLister, PrefixLister<P>, PrefixLister<FlatLister>>
NoLister == [way |-> "None", l |-> InnerLister(<<>>)]
One(l) == [way |-> "One", l |-> l]
Two(l) == [way |-> "Two", l |-> l]
Three(l) == [way |-> "Three", l |-> l]
Four(l) == [way |-> "Four", l |-> l]

\* <FourWays as oio::List>::next
complete_next(cl, errAt, e) ==
    LET r == IF cl.way = "One" THEN inner_next(cl.l, 0, errAt, e, <<>>, <<>>)
             ELSE IF cl.way = "Two" THEN flat_next(cl.l, 0, errAt, e, <<>>, <<>>)
             ELSE prefix_next(cl.l, 0, errAt, e, <<>>, <<>>)
    IN [r EXCEPT !.l = [cl EXCEPT !.l = r.l]]

\* what a lister has done since the list call that returned it
NoLog == [calls |-> <<>>, pulled |-> <<>>, out |-> <<>>,
          last |-> OkEntry(None), fault |-> None, errors |-> 0, ended |-> FALSE]

(* ---------------------------------------------------------------------- *)
(* CompleteWriter                                                          *)
(* ---------------------------------------------------------------------- *)
NewWriter(append) == [inner |-> Some("W"), append |-> append, size |-> 0]
NoWriter == [inner |-> None, append |-> FALSE, size |-> 0]

CmpError(what, expect, actual) ==
    Error("Unexpected", what, << <<"expect", expect>>, <<"actual", actual>> >>)

\* check with the two labels exchanged
writer_check_swapped(w, content_length) ==
    IF w.append \/ content_length = 0 THEN Ok(Unit)
    ELSE IF w.size = content_length THEN Ok(Unit)
    ELSE IF w.size < content_length
         THEN Err(CmpError("writer got too much data", content_length, w.size))
         ELSE Err(CmpError("writer got too little data", content_length, w.size))

\* check that forgets the append flag
writer_check_no_append(w, content_length) ==
    IF content_length = 0 THEN Ok(Unit)
    ELSE IF w.size = content_length THEN Ok(Unit)
    ELSE IF w.size < content_length
         THEN Err(CmpError("writer got too little data", content_length, w.size))
         ELSE Err(CmpError("writer got too much data", content_length, w.size))

\* CompleteWriter::check
writer_check(w, content_length) ==
    IF w.append \/ content_length = 0 THEN Ok(Unit)
    ELSE IF w.size = content_length THEN Ok(Unit)
    ELSE IF w.size < content_length
         THEN Err(CmpError("writer got too little data", content_length, w.size))
         ELSE Err(CmpError("writer got too much data", content_length, w.size))

\* the outcome of one call on a writer: the writer afterwards, the call made
\* on the inner sink (None when it was not reached), the result returned
WOut(w, called, ret) == [w |-> w, called |-> called, ret |-> ret]

\* write that does not look whether the inner sink is still there
writer_write_unguarded(w, len, innerRes) ==
    IF ~innerRes.ok THEN WOut(w, Some("write"), innerRes)
    ELSE WOut([w EXCEPT !.size = w.size + len], Some("write"), Ok(Unit))

\* write that counts the chunk before the inner sink has taken it
writer_write_count_first(w, len, innerRes) ==
    IF ~IsSome(w.inner) THEN WOut(w, None, Err(ClosedError))
    ELSE IF ~innerRes.ok
    THEN WOut([w EXCEPT !.size = w.size + len], Some("write"), innerRes)
    ELSE WOut([w EXCEPT !.size = w.size + len], Some("write"), Ok(Unit))

\* <CompleteWriter as oio::Write>::write; innerRes is what inner.write returns
writer_write(w, len, innerRes) ==
    IF ~IsSome(w.inner) THEN WOut(w, None, Err(ClosedError))
    ELSE IF ~innerRes.ok THEN WOut(w, Some("write"), innerRes)
    ELSE WOut([w EXCEPT !.size = w.size + len], Some("write"), Ok(Unit))

\* close that clears the inner sink before it runs the length check
writer_close_clear_first(w, innerRes) ==
    IF ~IsSome(w.inner) THEN WOut(w, None, Err(ClosedError))
    ELSE IF ~innerRes.ok THEN WOut(w, Some("close"), innerRes)
    ELSE LET chk == writer_check(w, innerRes.val.content_length)
             ret == IF innerRes.val.content_length = 0
                    THEN [innerRes.val EXCEPT !.content_length = w.size]
                    ELSE innerRes.val
         IN IF ~chk.ok THEN WOut([w EXCEPT !.inner = None], Some("close"), chk)
            ELSE WOut([w EXCEPT !.inner = None], Some("close"), Ok(ret))

\* close that forgets the bytes written when the length check fails
writer_close_reset(w, innerRes) ==
    IF ~IsSome(w.inner) THEN WOut(w, None, Err(ClosedError))
    ELSE IF ~innerRes.ok THEN WOut(w, Some("close"), innerRes)
    ELSE LET chk == writer_check(w, innerRes.val.content_length)
             ret == IF innerRes.val.content_length = 0
                    THEN [innerRes.val EXCEPT !.content_length = w.size]
                    ELSE innerRes.val
         IN IF ~chk.ok THEN WOut([w EXCEPT !.size = 0], Some("close"), chk)
            ELSE WOut([w EXCEPT !.inner = None], Some("close"), Ok(ret))

\* close that hands back the inner metadata as it came
writer_close_raw_metadata(w, innerRes) ==
    IF ~IsSome(w.inner) THEN WOut(w, None, Err(ClosedError))
    ELSE IF ~innerRes.ok THEN WOut(w, Some("close"), innerRes)
    ELSE LET chk == writer_check(w, innerRes.val.content_length)
         IN IF ~chk.ok THEN WOut(w, Some("close"), chk)
            ELSE WOut([w EXCEPT !.inner = None], Some("close"), Ok(innerRes.val))

\* close that never clears the inner sink
writer_close_keep(w, innerRes) ==
    IF ~IsSome(w.inner) THEN WOut(w, None, Err(ClosedError))
    ELSE IF ~innerRes.ok THEN WOut(w, Some("close"), innerRes)
    ELSE LET chk == writer_check(w, innerRes.val.content_length)
             ret == IF innerRes.val.content_length = 0
                    THEN [innerRes.val EXCEPT !.content_length = w.size]
                    ELSE innerRes.val
         IN IF ~chk.ok THEN WOut(w, Some("close"), chk)
            ELSE WOut(w, Some("close"), Ok(ret))

\* <CompleteWriter as oio::Write>::close; innerRes is what inner.close returns
writer_close(w, innerRes) ==
    IF ~IsSome(w.inner) THEN WOut(w, None, Err(ClosedError))
    ELSE IF ~innerRes.ok THEN WOut(w, Some("close"), innerRes)
    ELSE LET chk == writer_check(w, innerRes.val.content_length)
             ret == IF innerRes.val.content_length = 0
                    THEN [innerRes.val EXCEPT !.content_length = w.size]
                    ELSE innerRes.val
         IN IF ~chk.ok THEN WOut(w, Some("close"), chk)
            ELSE WOut([w EXCEPT !.inner = None], Some("close"), Ok(ret))

\* <CompleteWriter as oio::Write>::abort; innerRes is what inner.abort returns
writer_abort(w, innerRes) ==
    IF ~IsSome(w.inner) THEN WOut(w, None, Err(ClosedError))
    ELSE IF ~innerRes.ok THEN WOut(w, Some("abort"), innerRes)
    ELSE WOut([w EXCEPT !.inner = None], Some("abort"), Ok(Unit))

\* one entry of the writer's history; inner is the inner sink's answer, None
\* when the sink was not called
WCall(op, len, before, innerRes, out) ==
    [op |-> op, len |-> len, before |-> before,
     inner |-> IF IsSome(out.called) THEN Some(innerRes) ELSE None,
     called |-> out.called, ret |-> out.ret, after |-> out.w]

\* what the inner sink may answer
InnerUnit == {Ok(Unit)} \cup {Err(e) : e \in InnerErrors}
InnerClose == {Ok(Metadata("FILE", m)) : m \in 0..MaxLen} \cup {Err(e) : e \in InnerErrors}

WriterStep(op, len, innerRes, out) ==
    /\ IsSome(w_args)
    /\ Len(w_hist) < MaxWriterOps
    /\ writer' = out.w
    /\ w_hist' = Append(w_hist, WCall(op, len, writer, innerRes, out))
    /\ UNCHANGED <<acc_vars, w_args, reader_vars, lister_vars>>

Writer_write ==
    \E len \in 0..MaxChunk, innerRes \in InnerUnit :
        WriterStep("write", len, innerRes, writer_write(writer, len, innerRes))

Writer_close ==
    \E innerRes \in InnerClose :
        WriterStep("close", 0, innerRes, writer_close(writer, innerRes))

Writer_abort ==
    \E innerRes \in InnerUnit :
        WriterStep("abort", 0, innerRes, writer_abort(writer, innerRes))

(* ---------------------------------------------------------------------- *)
(* CompleteReader                                                          *)
(* ---------------------------------------------------------------------- *)
\* a Buffer is the sequence of its bytes
Buffers == UNION {[1..n -> {"b"}] : n \in 0..MaxChunk}

OkBuf(buf) == [ok |-> TRUE, val |-> buf, err |-> NoError]
ErrBuf(e) == [ok |-> FALSE, val |-> <<>>, err |-> e]

\* CompleteReader::new
NewReader(size) == [size |-> size, read |-> 0]

\* check that lets a short stream pass
reader_check_at_most(r) ==
    IF ~IsSome(r.size) THEN Ok(Unit)
    ELSE IF r.read <= Unwrap(r.size) THEN Ok(Unit)
    ELSE Err(CmpError("reader got too much data", Unwrap(r.size), r.read))

\* CompleteReader::check
reader_check(r) ==
    IF ~IsSome(r.size) THEN Ok(Unit)
    ELSE IF r.read = Unwrap(r.size) THEN Ok(Unit)
    ELSE IF r.read < Unwrap(r.size)
         THEN Err(CmpError("reader got too little data", Unwrap(r.size), r.read))
         ELSE Err(CmpError("reader got too much data", Unwrap(r.size), r.read))

\* the outcome of one read: the reader afterwards and the result returned
ROut(r, ret) == [r |-> r, ret |-> ret]

\* read that runs the check on every chunk
reader_read_check_always(r, innerRes) ==
    IF ~innerRes.ok THEN ROut(r, innerRes)
    ELSE LET n == [r EXCEPT !.read = r.read + Len(innerRes.val)]
             chk == reader_check(n)
         IN IF ~chk.ok THEN ROut(n, ErrBuf(chk.err)) ELSE ROut(n, innerRes)

\* <CompleteReader as oio::Read>::read; innerRes is what inner.read returns
reader_read(r, innerRes) ==
    IF ~innerRes.ok THEN ROut(r, innerRes)
    ELSE IF innerRes.val = <<>>
         THEN LET chk == reader_check(r)
              IN IF ~chk.ok THEN ROut(r, ErrBuf(chk.err)) ELSE ROut(r, innerRes)
         ELSE ROut([r EXCEPT !.read = r.read + Len(innerRes.val)], innerRes)

\* what the inner stream may answer
InnerRead == {OkBuf(b) : b \in Buffers} \cup {ErrBuf(e) : e \in InnerErrors}

\* one entry of the reader's history
RCall(before, innerRes, out) ==
    [before |-> before, inner |-> innerRes, ret |-> out.ret, after |-> out.r]

ReaderStep(innerRes, out) ==
    /\ IsSome(r_args)
    /\ Len(r_hist) < MaxReaderOps
    /\ reader' = out.r
    /\ r_hist' = Append(r_hist, RCall(reader, innerRes, out))
    /\ UNCHANGED <<acc_vars, writer_vars, r_args, lister_vars>>

Reader_read ==
    \E innerRes \in InnerRead :
        ReaderStep(innerRes, reader_read(reader, innerRes))

(* ---------------------------------------------------------------------- *)
(* CompleteLayer and CompleteAccessor                                      *)
(* ---------------------------------------------------------------------- *)
\* AccessorInfo::update_full_capability: the full view becomes what the
\* closure made of it, the native view is kept
update_full_capability(i, cap) == [i EXCEPT !.full = cap]

\* promotion that asks for the wrong listing flag
layer_promote_recursive(cap) ==
    IF cap.list_with_recursive /\ cap.write_can_empty
    THEN [cap EXCEPT !.create_dir = TRUE] ELSE cap

\* the closure CompleteLayer::layer passes to update_full_capability
layer_promote(cap) ==
    IF cap.list /\ cap.write_can_empty THEN [cap EXCEPT !.create_dir = TRUE] ELSE cap

\* CompleteLayer::layer
layer ==
    /\ ~layered
    /\ layered' = TRUE
    /\ info' = update_full_capability(info, layer_promote(info.full))
    /\ UNCHANGED <<backend_cap, a_last, writer_vars, reader_vars, lister_vars>>

\* <CompleteAccessor as LayeredAccess>::write; innerRes is what inner.write returns
Accessor_write(path, append, content_length, innerRes) ==
    /\ layered
    /\ a_last' = AccCall("write", path, FALSE,
                         <<InnerCall("write", path, FALSE, None)>>, <<innerRes>>,
                         innerRes)
    /\ IF innerRes.ok
       THEN /\ writer' = NewWriter(append)
            /\ w_args' = Some([append |-> append, content_length |-> content_length])
            /\ w_hist' = <<>>
       ELSE UNCHANGED writer_vars
    /\ UNCHANGED <<backend_cap, info, layered, reader_vars, lister_vars>>

\* <CompleteAccessor as LayeredAccess>::read; size is args.range().size(),
\* innerRes is what inner.read returns
Accessor_read(path, size, innerRes) ==
    /\ layered
    /\ a_last' = AccCall("read", path, FALSE,
                         <<InnerCall("read", path, FALSE, None)>>, <<innerRes>>,
                         innerRes)
    /\ IF innerRes.ok
       THEN /\ reader' = NewReader(size)
            /\ r_args' = Some([size |-> size])
            /\ r_hist' = <<>>
       ELSE UNCHANGED reader_vars
    /\ UNCHANGED <<backend_cap, info, layered, writer_vars, lister_vars>>

NoCall == AccCall("none", <<>>, FALSE, <<>>, <<>>, Ok(Unit))

\* the outcome of one accessor call: inner calls, result, lister returned
AOut(calls, ret, l) == [calls |-> calls, ret |-> ret, l |-> l]

NotFound(msg) == Error("NotFound", msg, <<>>)

\* create_dir that does not look at what closing the empty write returned
complete_create_dir_ignore_close(cap, path, r1, r2) ==
    IF cap.create_dir
    THEN AOut(<<InnerCall("create_dir", path, FALSE, None)>>, r1, NoLister)
    ELSE IF cap.write_can_empty /\ cap.list
    THEN IF ~r1.ok
         THEN AOut(<<InnerCall("write", path, FALSE, None)>>, r1, NoLister)
         ELSE AOut(<<InnerCall("write", path, FALSE, None),
                     InnerCall("writer.close", path, FALSE, None)>>,
                   Ok(Unit), NoLister)
    ELSE AOut(<<InnerCall("create_dir", path, FALSE, None)>>, r1, NoLister)

\* CompleteAccessor::complete_create_dir; r1 and r2 are what the first and
\* the second inner call return
complete_create_dir(cap, path, r1, r2) ==
    IF cap.create_dir
    THEN AOut(<<InnerCall("create_dir", path, FALSE, None)>>, r1, NoLister)
    ELSE IF cap.write_can_empty /\ cap.list
    THEN IF ~r1.ok
         THEN AOut(<<InnerCall("write", path, FALSE, None)>>, r1, NoLister)
         ELSE AOut(<<InnerCall("write", path, FALSE, None),
                     InnerCall("writer.close", path, FALSE, None)>>,
                   IF r2.ok THEN Ok(Unit) ELSE r2, NoLister)
    ELSE AOut(<<InnerCall("create_dir", path, FALSE, None)>>, r1, NoLister)

\* stat without the shortcut for the root
complete_stat_no_root(cap, path, statRes, listRes, nextRes) ==
    IF EndsWithSlash(path) /\ cap.create_dir
    THEN AOut(<<InnerCall("stat", path, FALSE, None)>>,
              IF ~statRes.ok THEN statRes
              ELSE IF statRes.val.mode = "FILE"
                   THEN Err(NotFound("stat expected a directory, but found a file"))
                   ELSE statRes,
              NoLister)
    ELSE IF EndsWithSlash(path) /\ cap.list_with_recursive
    THEN LET call == InnerCall("list", path, TRUE, Some(1))
         IN IF ~listRes.ok THEN AOut(<<call>>, listRes, NoLister)
            ELSE LET r == inner_next(InnerLister(Listing(path, TRUE)), 0,
                                     IF nextRes.ok THEN 0 ELSE 1, nextRes.err,
                                     <<>>, <<>>)
                     calls == <<call, InnerCall("lister.next", path, TRUE, Some(1))>>
                 IN IF ~r.ret.ok THEN AOut(calls, Err(r.ret.err), NoLister)
                    ELSE IF r.ret.val # None
                         THEN AOut(calls, Ok(Metadata("DIR", 0)), NoLister)
                         ELSE AOut(calls, Err(NotFound("the directory is not found")),
                                   NoLister)
    ELSE AOut(<<InnerCall("stat", path, FALSE, None)>>, statRes, NoLister)

\* stat that tries the listing before the backend's own stat of a directory
complete_stat_list_first(cap, path, statRes, listRes, nextRes) ==
    IF path = Root THEN AOut(<<>>, Ok(Metadata("DIR", 0)), NoLister)
    ELSE IF EndsWithSlash(path) /\ cap.list_with_recursive
    THEN LET call == InnerCall("list", path, TRUE, Some(1))
         IN IF ~listRes.ok THEN AOut(<<call>>, listRes, NoLister)
            ELSE LET r == inner_next(InnerLister(Listing(path, TRUE)), 0,
                                     IF nextRes.ok THEN 0 ELSE 1, nextRes.err,
                                     <<>>, <<>>)
                     calls == <<call, InnerCall("lister.next", path, TRUE, Some(1))>>
                 IN IF ~r.ret.ok THEN AOut(calls, Err(r.ret.err), NoLister)
                    ELSE IF r.ret.val # None
                         THEN AOut(calls, Ok(Metadata("DIR", 0)), NoLister)
                         ELSE AOut(calls, Err(NotFound("the directory is not found")),
                                   NoLister)
    ELSE IF EndsWithSlash(path) /\ cap.create_dir
    THEN AOut(<<InnerCall("stat", path, FALSE, None)>>,
              IF ~statRes.ok THEN statRes
              ELSE IF statRes.val.mode = "FILE"
                   THEN Err(NotFound("stat expected a directory, but found a file"))
                   ELSE statRes,
              NoLister)
    ELSE AOut(<<InnerCall("stat", path, FALSE, None)>>, statRes, NoLister)

\* stat whose listing takes a directory for present without pulling an entry
complete_stat_list_opened(cap, path, statRes, listRes, nextRes) ==
    IF path = Root THEN AOut(<<>>, Ok(Metadata("DIR", 0)), NoLister)
    ELSE IF EndsWithSlash(path) /\ cap.create_dir
    THEN AOut(<<InnerCall("stat", path, FALSE, None)>>,
              IF ~statRes.ok THEN statRes
              ELSE IF statRes.val.mode = "FILE"
                   THEN Err(NotFound("stat expected a directory, but found a file"))
                   ELSE statRes,
              NoLister)
    ELSE IF EndsWithSlash(path) /\ cap.list_with_recursive
    THEN LET call == InnerCall("list", path, TRUE, Some(1))
         IN IF ~listRes.ok THEN AOut(<<call>>, listRes, NoLister)
            ELSE LET r == inner_next(InnerLister(Listing(path, TRUE)), 0,
                                     IF nextRes.ok THEN 0 ELSE 1, nextRes.err,
                                     <<>>, <<>>)
                     calls == <<call, InnerCall("lister.next", path, TRUE, Some(1))>>
                 IN IF ~r.ret.ok THEN AOut(calls, Err(r.ret.err), NoLister)
                    ELSE AOut(calls, Ok(Metadata("DIR", 0)), NoLister)
    ELSE AOut(<<InnerCall("stat", path, FALSE, None)>>, statRes, NoLister)

\* CompleteAccessor::complete_stat; statRes is what inner.stat returns,
\* listRes what inner.list returns, nextRes whether the lister's next fails
complete_stat(cap, path, statRes, listRes, nextRes) ==
    IF path = Root THEN AOut(<<>>, Ok(Metadata("DIR", 0)), NoLister)
    ELSE IF EndsWithSlash(path) /\ cap.create_dir
    THEN AOut(<<InnerCall("stat", path, FALSE, None)>>,
              IF ~statRes.ok THEN statRes
              ELSE IF statRes.val.mode = "FILE"
                   THEN Err(NotFound("stat expected a directory, but found a file"))
                   ELSE statRes,
              NoLister)
    ELSE IF EndsWithSlash(path) /\ cap.list_with_recursive
    THEN LET call == InnerCall("list", path, TRUE, Some(1))
         IN IF ~listRes.ok THEN AOut(<<call>>, listRes, NoLister)
            ELSE LET r == inner_next(InnerLister(Listing(path, TRUE)), 0,
                                     IF nextRes.ok THEN 0 ELSE 1, nextRes.err,
                                     <<>>, <<>>)
                     calls == <<call, InnerCall("lister.next", path, TRUE, Some(1))>>
                 IN IF ~r.ret.ok THEN AOut(calls, Err(r.ret.err), NoLister)
                    ELSE IF r.ret.val # None
                         THEN AOut(calls, Ok(Metadata("DIR", 0)), NoLister)
                         ELSE AOut(calls, Err(NotFound("the directory is not found")),
                                   NoLister)
    ELSE AOut(<<InnerCall("stat", path, FALSE, None)>>, statRes, NoLister)

\* list that forgets the prefix filter over the parent's listing
complete_list_unfiltered(cap, path, recursive, limit, innerRes) ==
    IF cap.list_with_recursive
    THEN AOut(<<InnerCall("list", path, recursive, limit)>>, innerRes,
              IF innerRes.ok THEN One(InnerLister(Listing(path, recursive)))
              ELSE NoLister)
    ELSE IF recursive
    THEN IF EndsWithSlash(path)
         THEN AOut(<<>>, Ok(Unit), Two(FlatLister(path)))
         ELSE AOut(<<>>, Ok(Unit),
                   Four(PrefixLister(FlatLister(get_parent(path)), path, TRUE)))
    ELSE IF EndsWithSlash(path)
         THEN AOut(<<InnerCall("list", path, recursive, limit)>>, innerRes,
                   IF innerRes.ok THEN One(InnerLister(Listing(path, recursive)))
                   ELSE NoLister)
         ELSE LET parent == get_parent(path)
              IN AOut(<<InnerCall("list", parent, recursive, limit)>>, innerRes,
                      IF innerRes.ok
                      THEN One(InnerLister(Listing(parent, recursive)))
                      ELSE NoLister)

\* list whose filtered flat lister walks the path itself, not its parent
complete_list_flat_at_path(cap, path, recursive, limit, innerRes) ==
    IF cap.list_with_recursive
    THEN AOut(<<InnerCall("list", path, recursive, limit)>>, innerRes,
              IF innerRes.ok THEN One(InnerLister(Listing(path, recursive)))
              ELSE NoLister)
    ELSE IF recursive
    THEN IF EndsWithSlash(path)
         THEN AOut(<<>>, Ok(Unit), Two(FlatLister(path)))
         ELSE AOut(<<>>, Ok(Unit),
                   Four(PrefixLister(FlatLister(path), path, TRUE)))
    ELSE IF EndsWithSlash(path)
         THEN AOut(<<InnerCall("list", path, recursive, limit)>>, innerRes,
                   IF innerRes.ok THEN One(InnerLister(Listing(path, recursive)))
                   ELSE NoLister)
         ELSE LET parent == get_parent(path)
              IN AOut(<<InnerCall("list", parent, recursive, limit)>>, innerRes,
                      IF innerRes.ok
                      THEN Three(PrefixLister(InnerLister(Listing(parent, recursive)),
                                              path, FALSE))
                      ELSE NoLister)

\* list that hands a recursive request for a directory to the backend as it is
complete_list_forward_recursive(cap, path, recursive, limit, innerRes) ==
    IF cap.list_with_recursive
    THEN AOut(<<InnerCall("list", path, recursive, limit)>>, innerRes,
              IF innerRes.ok THEN One(InnerLister(Listing(path, recursive)))
              ELSE NoLister)
    ELSE IF recursive
    THEN IF EndsWithSlash(path)
         THEN AOut(<<InnerCall("list", path, recursive, limit)>>, innerRes,
                   IF innerRes.ok THEN One(InnerLister(Listing(path, recursive)))
                   ELSE NoLister)
         ELSE AOut(<<>>, Ok(Unit),
                   Four(PrefixLister(FlatLister(get_parent(path)), path, TRUE)))
    ELSE IF EndsWithSlash(path)
         THEN AOut(<<InnerCall("list", path, recursive, limit)>>, innerRes,
                   IF innerRes.ok THEN One(InnerLister(Listing(path, recursive)))
                   ELSE NoLister)
         ELSE LET parent == get_parent(path)
              IN AOut(<<InnerCall("list", parent, recursive, limit)>>, innerRes,
                      IF innerRes.ok
                      THEN Three(PrefixLister(InnerLister(Listing(parent, recursive)),
                                              path, FALSE))
                      ELSE NoLister)

\* list that walks one level only for a recursive request on a directory
complete_list_one_level(cap, path, recursive, limit, innerRes) ==
    IF cap.list_with_recursive
    THEN AOut(<<InnerCall("list", path, recursive, limit)>>, innerRes,
              IF innerRes.ok THEN One(InnerLister(Listing(path, recursive)))
              ELSE NoLister)
    ELSE IF recursive
    THEN IF EndsWithSlash(path)
         THEN AOut(<<>>, Ok(Unit), One(InnerLister(Listing(path, FALSE))))
         ELSE AOut(<<>>, Ok(Unit),
                   Four(PrefixLister(FlatLister(get_parent(path)), path, TRUE)))
    ELSE IF EndsWithSlash(path)
         THEN AOut(<<InnerCall("list", path, recursive, limit)>>, innerRes,
                   IF innerRes.ok THEN One(InnerLister(Listing(path, recursive)))
                   ELSE NoLister)
         ELSE LET parent == get_parent(path)
              IN AOut(<<InnerCall("list", parent, recursive, limit)>>, innerRes,
                      IF innerRes.ok
                      THEN Three(PrefixLister(InnerLister(Listing(parent, recursive)),
                                              path, FALSE))
                      ELSE NoLister)

\* CompleteAccessor::complete_list; innerRes is what inner.list returns
complete_list(cap, path, recursive, limit, innerRes) ==
    IF cap.list_with_recursive
    THEN AOut(<<InnerCall("list", path, recursive, limit)>>, innerRes,
              IF innerRes.ok THEN One(InnerLister(Listing(path, recursive)))
              ELSE NoLister)
    ELSE IF recursive
    THEN IF EndsWithSlash(path)
         THEN AOut(<<>>, Ok(Unit), Two(FlatLister(path)))
         ELSE AOut(<<>>, Ok(Unit),
                   Four(PrefixLister(FlatLister(get_parent(path)), path, TRUE)))
    ELSE IF EndsWithSlash(path)
         THEN AOut(<<InnerCall("list", path, recursive, limit)>>, innerRes,
                   IF innerRes.ok THEN One(InnerLister(Listing(path, recursive)))
                   ELSE NoLister)
         ELSE LET parent == get_parent(path)
              IN AOut(<<InnerCall("list", parent, recursive, limit)>>, innerRes,
                      IF innerRes.ok
                      THEN Three(PrefixLister(InnerLister(Listing(parent, recursive)),
                                              path, FALSE))
                      ELSE NoLister)

\* one call on the accessor that opens no reader and no writer; inner holds
\* what the inner calls return, in the order the call would make them
AccStep(op, path, recursive, inner, out) ==
    /\ layered
    /\ a_last' = AccCall(op, path, recursive, out.calls,
                         SubSeq(inner, 1, Len(out.calls)), out.ret)
    /\ lister' = out.l
    /\ l_log' = NoLog
    /\ UNCHANGED <<backend_cap, info, layered, writer_vars, reader_vars>>

\* <CompleteAccessor as LayeredAccess>::create_dir
Accessor_create_dir(path, r1, r2) ==
    AccStep("create_dir", path, FALSE, <<r1, r2>>,
            complete_create_dir(info.native, path, r1, r2))

\* <CompleteAccessor as LayeredAccess>::stat
Accessor_stat(path, statRes, listRes, nextRes) ==
    LET out == complete_stat(info.native, path, statRes, listRes, nextRes)
    IN AccStep("stat", path, FALSE,
               IF out.calls # <<>> /\ out.calls[1].op = "list"
               THEN <<listRes, nextRes>> ELSE <<statRes>>,
               out)

\* <CompleteAccessor as LayeredAccess>::list
Accessor_list(path, recursive, limit, innerRes) ==
    AccStep("list", path, recursive, <<innerRes>>,
            complete_list(info.native, path, recursive, limit, innerRes))

\* <CompleteAccessor as LayeredAccess>::delete
Accessor_delete(innerRes) ==
    AccStep("delete", <<>>, FALSE, <<innerRes>>,
            AOut(<<InnerCall("delete", <<>>, FALSE, None)>>, innerRes, NoLister))

\* <CompleteAccessor as LayeredAccess>::presign
Accessor_presign(path, innerRes) ==
    AccStep("presign", path, FALSE, <<innerRes>>,
            AOut(<<InnerCall("presign", path, FALSE, None)>>, innerRes, NoLister))

\* <CompleteLister as oio::List>::next on the lister the last list returned
Lister_next(errAt, e) ==
    /\ lister.way # "None"
    /\ errAt # 0 => l_log.errors < MaxListerErrors
    /\ LET r == complete_next(lister, errAt, e)
       IN /\ lister' = r.l
          /\ l_log' = [calls |-> l_log.calls \o r.calls,
                       pulled |-> l_log.pulled \o r.pulled,
                       out |-> IF r.ret.ok /\ r.ret.val # None
                               THEN Append(l_log.out, Unwrap(r.ret.val))
                               ELSE l_log.out,
                       last |-> r.ret,
                       fault |-> IF errAt \in 1..r.n THEN Some(e) ELSE None,
                       errors |-> IF r.ret.ok THEN l_log.errors ELSE l_log.errors + 1,
                       ended |-> l_log.ended \/ (r.ret.ok /\ r.ret.val = None)]
    /\ UNCHANGED <<acc_vars, writer_vars, reader_vars>>

\* the caller is done with the last call's result and drops the writer, the
\* reader or the lister it holds
Drop ==
    /\ a_last # NoCall
    /\ a_last' = NoCall
    /\ writer' = NoWriter
    /\ w_args' = None
    /\ w_hist' = <<>>
    /\ reader' = NewReader(None)
    /\ r_args' = None
    /\ r_hist' = <<>>
    /\ lister' = NoLister
    /\ l_log' = NoLog
    /\ UNCHANGED <<backend_cap, info, layered>>

(* ---------------------------------------------------------------------- *)
(* Specifications                                                          *)
(* ---------------------------------------------------------------------- *)
InitWith(caps) ==
    /\ backend_cap \in caps
    /\ info = [native |-> backend_cap, full |-> backend_cap]
    /\ layered = FALSE
    /\ a_last = NoCall
    /\ writer = NoWriter
    /\ w_args = None
    /\ w_hist = <<>>
    /\ reader = NewReader(None)
    /\ r_args = None
    /\ r_hist = <<>>
    /\ lister = NoLister
    /\ l_log = NoLog

\* the backend under one writer or one reader
InitStream ==
    InitWith({[create_dir |-> FALSE, list |-> TRUE,
               list_with_recursive |-> FALSE, write_can_empty |-> TRUE]})

OpenWriter ==
    \E append \in BOOLEAN, content_length \in {0, MaxLen}, innerRes \in InnerUnit :
        /\ w_args = None
        /\ Accessor_write(<<"f">>, append, content_length, innerRes)

\* one writer, from the call that opens it to its last call
NextWriter ==
    \/ layer
    \/ OpenWriter
    \/ Writer_write
    \/ Writer_close
    \/ Writer_abort

SpecWriter == InitStream /\ [][NextWriter]_vars

\* one reader, from the call that opens it to its last read
RangeSizes == {None} \cup {Some(n) : n \in 0..MaxLen}

OpenReader ==
    \E size \in RangeSizes, innerRes \in InnerUnit :
        /\ r_args = None
        /\ Accessor_read(<<"f">>, size, innerRes)

NextReader ==
    \/ layer
    \/ OpenReader
    \/ Reader_read

SpecReader == InitStream /\ [][NextReader]_vars

\* the accessor over every capability set a backend may declare; the caller
\* makes one call at a time and holds one writer, reader or lister at a time
InitAccessor == InitWith(Capability)

Idle == a_last = NoCall

InnerStat ==
    {Ok(Metadata(mode, n)) : mode \in {"FILE", "DIR", "Unknown"}, n \in {0, MaxLen}}
        \cup {Err(e) : e \in InnerErrors}

CallsPerNext == 0..(Len(StoreKeys) + 2)

NextAccessor ==
    \/ layer
    \/ \E path \in Paths, r1 \in InnerUnit, r2 \in InnerUnit :
          Idle /\ Accessor_create_dir(path, r1, r2)
    \/ \E path \in Paths, statRes \in InnerStat, listRes \in InnerUnit,
          nextRes \in InnerUnit :
          Idle /\ Accessor_stat(path, statRes, listRes, nextRes)
    \/ \E path \in Paths, recursive \in BOOLEAN, innerRes \in InnerUnit :
          Idle /\ Accessor_list(path, recursive, None, innerRes)
    \/ \E path \in Paths, size \in {None, Some(MaxLen)}, innerRes \in InnerUnit :
          Idle /\ Accessor_read(path, size, innerRes)
    \/ \E path \in Paths, append \in BOOLEAN, innerRes \in InnerUnit :
          Idle /\ Accessor_write(path, append, 0, innerRes)
    \/ \E innerRes \in InnerUnit : Idle /\ Accessor_delete(innerRes)
    \/ \E path \in Paths, innerRes \in InnerUnit :
          Idle /\ Accessor_presign(path, innerRes)
    \/ \E errAt \in CallsPerNext, e \in InnerErrors : Lister_next(errAt, e)
    \/ Drop

SpecAccessor == InitAccessor /\ [][NextAccessor]_vars

(* ---------------------------------------------------------------------- *)
(* Properties of the completing writer                                     *)
(* ---------------------------------------------------------------------- *)
WIdx == 1..Len(w_hist)

\* the call found the inner sink and the sink answered with success
InnerOk(c) == IsSome(c.inner) /\ Unwrap(c.inner).ok
\* the call found the inner sink and the sink answered with an error
InnerFailed(c) == IsSome(c.inner) /\ ~Unwrap(c.inner).ok
\* the content length in the metadata the inner close returned
Reported(c) == Unwrap(c.inner).val.content_length
\* the length check of a close whose inner close succeeded passes
LengthOk(c) ==
    c.before.append \/ Reported(c) = 0 \/ c.before.size = Reported(c)
\* a close whose inner close succeeded and whose length check failed
CheckFailed(c) == c.op = "close" /\ InnerOk(c) /\ ~LengthOk(c)
\* the call was made on a writer whose inner sink was present
Open(c) == IsSome(c.before.inner)

\* C1: a writer leaves the OPEN state only in a close whose inner close
\* succeeded and whose length check passed, or in an abort whose inner abort
\* succeeded; when inner close, the length check or inner abort fails, the
\* inner sink is still present and the next close or abort reaches it again.
C1_LeavesOpenOnlyOnSuccess ==
    \A i \in WIdx :
        LET c == w_hist[i] IN
        /\ (Open(c) /\ ~IsSome(c.after.inner)) =>
              \/ c.op = "close" /\ InnerOk(c) /\ LengthOk(c) /\ c.ret.ok
              \/ c.op = "abort" /\ InnerOk(c) /\ c.ret.ok
        /\ (Open(c) /\ c.op \in {"close", "abort"} /\ (InnerFailed(c) \/ CheckFailed(c))) =>
              /\ ~c.ret.ok
              /\ IsSome(c.after.inner)
              /\ (i < Len(w_hist) /\ w_hist[i + 1].op \in {"close", "abort"}) =>
                    w_hist[i + 1].called = Some(w_hist[i + 1].op)

\* a close failed its length check, the sink stayed, and the close or abort
\* that followed reached the inner sink
C1_Witness ==
    \E i \in WIdx :
        /\ i < Len(w_hist)
        /\ Open(w_hist[i]) /\ CheckFailed(w_hist[i])
        /\ IsSome(w_hist[i].after.inner)
        /\ w_hist[i + 1].op \in {"close", "abort"}
        /\ w_hist[i + 1].called = Some(w_hist[i + 1].op)

\* C2: once close or abort has returned success, every later write, close
\* and abort fails with Unexpected "writer has been closed or aborted" and
\* makes no call on the inner sink.
C2_ClosedWriterRejectsAll ==
    \A i \in WIdx, j \in WIdx :
        (i < j /\ w_hist[i].op \in {"close", "abort"} /\ w_hist[i].ret.ok) =>
            /\ w_hist[j].ret = Err(ClosedError)
            /\ w_hist[j].called = None
            /\ w_hist[j].after = w_hist[j].before

\* a successful close or abort was followed by a write and by a close or abort
C2_Witness ==
    \E i \in WIdx, j \in WIdx, k \in WIdx :
        /\ i < j /\ i < k
        /\ w_hist[i].op \in {"close", "abort"} /\ w_hist[i].ret.ok
        /\ w_hist[j].op = "write"
        /\ w_hist[k].op \in {"close", "abort"}

\* the content length declared on the write request that opened the writer
Declared == Unwrap(w_args).content_length

\* the result the length check gives for `written` bytes against `expect`
Expected(expect, written) ==
    IF written = expect THEN "ok"
    ELSE IF written < expect THEN "writer got too little data"
    ELSE "writer got too much data"

\* the close returned what a comparison of the bytes written with `expect` asks for
Judged(c, expect) ==
    IF Expected(expect, c.before.size) = "ok" THEN c.ret.ok
    ELSE c.ret = Err(CmpError(Expected(expect, c.before.size), expect, c.before.size))

C4_AppendNeverLengthChecked ==
    \A i \in WIdx :
        LET c == w_hist[i] IN
        (c.op = "close" /\ (c.before.append \/ (InnerOk(c) /\ Reported(c) = 0))) =>
            \/ c.ret.ok /\ InnerOk(c)
            \/ ~Open(c) /\ c.ret = Err(ClosedError)
            \/ InnerFailed(c) /\ c.ret = Unwrap(c.inner)

\* an append writer closed with success although the bytes written differ
\* from the non-zero content length the inner close reported
C4_Witness ==
    \E i \in WIdx :
        LET c == w_hist[i] IN
        /\ c.op = "close" /\ c.before.append /\ InnerOk(c)
        /\ Reported(c) > 0 /\ c.before.size # Reported(c)
        /\ c.before.size > 0
        /\ c.ret.ok

\* C5 as stated: after a close that failed the length check, the writer is
\* OPEN with bytes_written unchanged and a close retried at once fails with
\* the identical error.
C5_RetryFailsIdentically ==
    \A i \in WIdx :
        LET c == w_hist[i] IN
        (Open(c) /\ CheckFailed(c)) =>
            /\ IsSome(c.after.inner)
            /\ c.after.size = c.before.size
            /\ (i < Len(w_hist) /\ w_hist[i + 1].op = "close") =>
                  w_hist[i + 1].ret = c.ret

\* C5 as amended: after a close that failed the length check, the writer is
\* OPEN with bytes_written unchanged, and a close retried at once calls the
\* inner close again; it fails with the identical error when that inner close
\* succeeds and reports the same content length.
C5_RetryFailsIdenticallyIfSameReport ==
    \A i \in WIdx :
        LET c == w_hist[i] IN
        (Open(c) /\ CheckFailed(c)) =>
            /\ IsSome(c.after.inner)
            /\ c.after.size = c.before.size
            /\ (i < Len(w_hist) /\ w_hist[i + 1].op = "close") =>
                  LET d == w_hist[i + 1] IN
                  /\ d.called = Some("close")
                  /\ (InnerOk(d) /\ Reported(d) = Reported(c)) => d.ret = c.ret

\* a write, a close that failed the length check, and a retried close whose
\* inner close reported the same content length
C5_Witness ==
    \E i \in WIdx :
        /\ 1 < i /\ i < Len(w_hist)
        /\ w_hist[i - 1].op = "write" /\ w_hist[i - 1].ret.ok /\ w_hist[i - 1].len > 0
        /\ Open(w_hist[i]) /\ CheckFailed(w_hist[i])
        /\ w_hist[i + 1].op = "close" /\ InnerOk(w_hist[i + 1])
        /\ Reported(w_hist[i + 1]) = Reported(w_hist[i])
        /\ w_hist[i + 1].ret = w_hist[i].ret

\* the bytes of the chunks the inner sink accepted in the first k calls
RECURSIVE Accepted(_)
Accepted(k) ==
    IF k = 0 THEN 0
    ELSE Accepted(k - 1)
         + (IF w_hist[k].op = "write" /\ InnerOk(w_hist[k]) THEN w_hist[k].len ELSE 0)

\* C16: bytes_written is always the sum of the lengths of the chunks whose
\* inner write succeeded; a write whose inner write fails returns the inner
\* error as it is and leaves bytes_written and the inner sink as they were;
\* close and abort never change bytes_written.
C16_BytesWrittenCountsAcceptedChunks ==
    /\ writer.size = Accepted(Len(w_hist))
    /\ \A i \in WIdx :
          LET c == w_hist[i] IN
          /\ c.after.size = Accepted(i)
          /\ (c.op = "write" /\ InnerFailed(c)) =>
                /\ c.ret = Unwrap(c.inner)
                /\ c.after = c.before
                /\ IsSome(c.after.inner)
          /\ c.op \in {"close", "abort"} => c.after.size = c.before.size

\* a chunk was accepted, a longer one was refused by the inner sink, and
\* bytes_written counts the first only
C16_Witness ==
    \E i \in WIdx, j \in WIdx :
        /\ i < j
        /\ w_hist[i].op = "write" /\ InnerOk(w_hist[i]) /\ w_hist[i].len = 1
        /\ w_hist[j].op = "write" /\ InnerFailed(w_hist[j]) /\ w_hist[j].len = 2
        /\ w_hist[j].ret.err \in InnerErrors
        /\ writer.size = 1

\* C17: a successful close returns the inner close's metadata, with
\* content_length replaced by bytes_written when the inner reported 0 and
\* untouched otherwise; for a non-append writer the content length returned
\* is therefore always bytes_written.
C17_CloseMetadata ==
    \A i \in WIdx :
        LET c == w_hist[i] IN
        (c.op = "close" /\ c.ret.ok) =>
            /\ InnerOk(c)
            /\ c.ret.val.mode = Unwrap(c.inner).val.mode
            /\ Reported(c) = 0 => c.ret.val.content_length = c.before.size
            /\ Reported(c) # 0 => c.ret.val = Unwrap(c.inner).val
            /\ ~c.before.append => c.ret.val.content_length = c.before.size

\* a close succeeded after bytes were written and the inner close reported
\* content length 0: the metadata returned carries bytes_written
C17_Witness ==
    \E i \in WIdx :
        LET c == w_hist[i] IN
        /\ c.op = "close" /\ c.ret.ok /\ ~c.before.append
        /\ Reported(c) = 0 /\ c.before.size > 0
        /\ c.ret.val = Metadata("FILE", c.before.size)

\* C19 as stated: once the inner close has returned success, no later call
\* on the writer reaches the inner sink.
C19_NoCallAfterInnerClose ==
    \A i \in WIdx, j \in WIdx :
        (i < j /\ w_hist[i].op = "close" /\ InnerOk(w_hist[i])) =>
            w_hist[j].called = None

\* C19 as amended: once the inner close has returned success and the length
\* check has passed, no later call on the writer reaches the inner sink; an
\* inner close that succeeded under a failed length check leaves the sink in
\* place and the next call reaches it.
C19_NoCallAfterAcceptedClose ==
    \A i \in WIdx, j \in WIdx :
        (i < j /\ w_hist[i].op = "close" /\ InnerOk(w_hist[i])) =>
            /\ LengthOk(w_hist[i]) => w_hist[j].called = None
            /\ (~LengthOk(w_hist[i]) /\ j = i + 1) => w_hist[j].called = Some(w_hist[j].op)

\* the inner close succeeded twice on one writer: under a failed length check
\* first, and again in a later close whose check passed and cleared the sink
C19_Witness ==
    \E i \in WIdx, j \in WIdx :
        /\ i < j
        /\ w_hist[i].op = "close" /\ InnerOk(w_hist[i]) /\ ~LengthOk(w_hist[i])
        /\ w_hist[j].op = "close" /\ InnerOk(w_hist[j]) /\ LengthOk(w_hist[j])
        /\ w_hist[j].ret.ok /\ ~IsSome(writer.inner)

(* ---------------------------------------------------------------------- *)
(* Properties of the completing reader                                     *)
(* ---------------------------------------------------------------------- *)
RIdx == 1..Len(r_hist)

\* the bytes of the chunks the inner stream delivered in the first k reads
RECURSIVE Delivered(_)
Delivered(k) ==
    IF k = 0 THEN 0
    ELSE Delivered(k - 1) + (IF r_hist[k].inner.ok THEN Len(r_hist[k].inner.val) ELSE 0)

\* the read received an empty chunk from the inner stream
Terminal(c) == c.inner.ok /\ c.inner.val = <<>>

\* C6: with expected size Some(n), a read that receives an empty chunk
\* succeeds, returning the empty chunk, if and only if the chunks delivered so
\* far total n bytes; otherwise it fails with Unexpected, expect = n and
\* actual = bytes_read, "reader got too little data" below n and "reader got
\* too much data" above n.
C6_TerminalReadJudgesTotal ==
    \A i \in RIdx :
        LET c == r_hist[i]
            total == Delivered(i - 1)
        IN (Terminal(c) /\ IsSome(c.before.size)) =>
              LET n == Unwrap(c.before.size) IN
              /\ c.before.read = total
              /\ (total = n) <=> c.ret.ok
              /\ c.ret.ok => c.ret.val = <<>>
              /\ total < n => c.ret = ErrBuf(CmpError("reader got too little data", n, total))
              /\ total > n => c.ret = ErrBuf(CmpError("reader got too much data", n, total))

\* one reader with n > 0 has failed a terminal read for too little data and,
\* after more chunks, another terminal read for too much data
C6_Witness ==
    \E i \in RIdx, j \in RIdx :
        /\ IsSome(reader.size) /\ Unwrap(reader.size) > 0
        /\ Terminal(r_hist[i]) /\ ~r_hist[i].ret.ok
        /\ r_hist[i].ret.err.msg = "reader got too little data"
        /\ Terminal(r_hist[j]) /\ ~r_hist[j].ret.ok
        /\ r_hist[j].ret.err.msg = "reader got too much data"

\* a terminal read succeeded after the expected n > 0 bytes came in two chunks
C6_WitnessExact ==
    \E i \in RIdx :
        /\ i > 2
        /\ IsSome(reader.size) /\ Unwrap(reader.size) > 0
        /\ Terminal(r_hist[i]) /\ r_hist[i].ret.ok
        /\ Len(r_hist[1].ret.val) > 0 /\ Len(r_hist[2].ret.val) > 0

\* C7: a read that received a non-empty chunk returns that chunk and
\* succeeds, also when bytes_read already exceeds the expected size; with
\* expected size None no read fails unless the inner read failed; and every
\* error of a read that received no empty chunk is the inner stream's error.
C7_NonTerminalReadsNeverJudge ==
    \A i \in RIdx :
        LET c == r_hist[i] IN
        /\ (c.inner.ok /\ c.inner.val # <<>>) => c.ret = OkBuf(c.inner.val)
        /\ ~IsSome(c.before.size) => (c.ret.ok <=> c.inner.ok)
        /\ (~c.ret.ok /\ ~Terminal(c)) => (~c.inner.ok /\ c.ret = c.inner)

\* a non-empty chunk was forwarded although more than the expected size had
\* been read before it
C7_Witness ==
    \E i \in RIdx :
        LET c == r_hist[i] IN
        /\ IsSome(c.before.size)
        /\ c.before.read > Unwrap(c.before.size)
        /\ c.inner.ok /\ c.inner.val # <<>>
        /\ c.ret = OkBuf(c.inner.val)

(* ---------------------------------------------------------------------- *)
(* Properties of the accessor                                              *)
(* ---------------------------------------------------------------------- *)
\* C8: stat("/") returns metadata with mode DIR and makes no call on the
\* inner backend, whatever the backend's capabilities and answers.
C8_RootStatTouchesNothing ==
    (a_last.op = "stat" /\ a_last.path = Root) =>
        /\ a_last.ret.ok
        /\ a_last.ret.val.mode = "DIR"
        /\ a_last.calls = <<>>

\* the root was stat'ed on a backend with native create_dir, where any other
\* directory path is sent to the inner stat
C8_Witness ==
    /\ a_last.op = "stat" /\ a_last.path = Root
    /\ info.native.create_dir /\ info.native.list_with_recursive
    /\ a_last.ret = Ok(Metadata("DIR", 0))

\* C9: attaching the layer leaves the native view as the backend declared it
\* and, when list and write_can_empty are both declared, sets create_dir in
\* the full view; no operation after that changes either view.
C9_CapabilityFixedAtLayering ==
    [][ /\ (~layered /\ layered') =>
              /\ info'.native = backend_cap
              /\ (backend_cap.list /\ backend_cap.write_can_empty) =>
                    info'.full.create_dir
        /\ layered => (layered' /\ info' = info)
        /\ backend_cap' = backend_cap ]_vars

\* a backend without native create_dir, with list and write_can_empty, after
\* layering and a create_dir call: create_dir shows in the full view only
C9_Witness ==
    /\ layered
    /\ backend_cap.list /\ backend_cap.write_can_empty /\ ~backend_cap.create_dir
    /\ info.full.create_dir /\ ~info.native.create_dir
    /\ a_last.op = "create_dir" /\ a_last.ret.ok

IsPrefixOf(s, t) == Len(s) <= Len(t) /\ SubSeq(t, 1, Len(s)) = s

\* C10: on a backend without list_with_recursive, a non-recursive list of a
\* path that does not end with "/" lists parent(path) on the inner backend
\* once and yields, in their order, exactly the entries of that listing whose
\* key starts with the whole path.
C10_PrefixListOfParent ==
    (/\ a_last.op = "list" /\ a_last.ret.ok /\ ~a_last.recursive
     /\ ~EndsWithSlash(a_last.path) /\ ~info.native.list_with_recursive) =>
        LET path == a_last.path
            inner == Listing(get_parent(path), FALSE)
            Kept(e) == StartsWith(e.path, path)
        IN /\ a_last.calls = <<InnerCall("list", get_parent(path), FALSE, None)>>
           /\ l_log.calls = <<>>
           /\ IsPrefixOf(l_log.pulled, inner)
           /\ l_log.out = SelectSeq(l_log.pulled, Kept)
           /\ l_log.ended => l_log.out = SelectSeq(inner, Kept)
           /\ (l_log.ended /\ path = pDa) =>
                 l_log.out = <<Entry(pDab, "FILE"), Entry(pDac, "FILE")>>

\* list("d/a") over a parent listing [d/ab, d/b/, d/ac] reached the end of
\* the stream having yielded [d/ab, d/ac]
C10_Witness ==
    /\ a_last.op = "list" /\ a_last.path = pDa /\ ~a_last.recursive
    /\ ~info.native.list_with_recursive
    /\ lister.way = "Three"
    /\ l_log.ended
    /\ Len(l_log.pulled) = 3
    /\ l_log.out = <<Entry(pDab, "FILE"), Entry(pDac, "FILE")>>

\* one recursive listing on a backend without native list_with_recursive,
\* from the list call to the end of the stream; the caller keeps pulling
OpenFlat ==
    \E path \in Paths : Idle /\ Accessor_list(path, TRUE, None, Ok(Unit))

Pull == \E errAt \in CallsPerNext, e \in InnerErrors : Lister_next(errAt, e)

NextFlat ==
    \/ layer
    \/ OpenFlat
    \/ Pull

\* a pull changes the state exactly until end-of-stream was returned: before
\* that, a pull whose inner calls succeed yields an entry or ends the stream
PullEnabled == lister.way # "None" /\ ~l_log.ended

\* after end-of-stream no pull does anything, whatever the backend would
\* answer: an invariant of SpecFlat that makes PullEnabled the enabling
\* condition of a pull that changes the state
PullIdleAfterEnd ==
    (lister.way # "None" /\ l_log.ended) =>
        /\ l_log.last = OkEntry(None)
        /\ l_log.fault = None
        /\ \A errAt \in CallsPerNext, e \in InnerErrors :
              complete_next(lister, errAt, e)
                  = Eff(lister, OkEntry(None), 0, <<>>, <<>>)

\* the caller keeps pulling while a pull can do something: weak fairness of
\* Pull, with ENABLED <<Pull>>_vars written out as PullEnabled
PullFair == []<><<Pull>>_vars \/ []<>~PullEnabled

SpecFlat == InitStream /\ [][NextFlat]_vars /\ PullFair

(* ---------------------------------------------------------------------- *)
(* Properties of list, create_dir and stat                                 *)
(* ---------------------------------------------------------------------- *)
LWR == info.native.list_with_recursive

Listed == a_last.op = "list"

\* the one inner list call a strategy makes, and what the call returns then
ForwardsTo(path) ==
    /\ a_last.calls = <<InnerCall("list", path, a_last.recursive, None)>>
    /\ a_last.ret = a_last.answers[1]
    /\ ~a_last.ret.ok => lister = NoLister

\* C12: list picks its strategy from the native list_with_recursive flag,
\* the recursive argument and the trailing slash of the path exactly as the
\* selection table says, and no other inner call or wrapper occurs: with
\* the flag, one inner list at the path with the caller's arguments and the
\* inner lister unwrapped; recursive without the flag, no inner call and a
\* flat lister rooted at the path (trailing slash) or at the parent behind a
\* prefix filter for the path (no trailing slash); non-recursive without
\* the flag, one inner list at the path unwrapped (trailing slash) or one
\* inner list at the parent behind a prefix filter for the path
C12_StrategyFollowsTable ==
    Listed =>
        LET path == a_last.path
            ends == EndsWithSlash(path)
        IN IF LWR
           THEN ForwardsTo(path) /\ (a_last.ret.ok => lister.way = "One")
           ELSE IF a_last.recursive /\ ends
           THEN /\ a_last.calls = <<>>
                /\ a_last.ret.ok
                /\ lister.way = "Two"
                /\ lister.l.root = path
           ELSE IF a_last.recursive
           THEN /\ a_last.calls = <<>>
                /\ a_last.ret.ok
                /\ lister.way = "Four"
                /\ lister.l.prefix = path
                /\ lister.l.flat
                /\ lister.l.lister.root = get_parent(path)
           ELSE IF ends
           THEN ForwardsTo(path) /\ (a_last.ret.ok => lister.way = "One")
           ELSE /\ ForwardsTo(get_parent(path))
                /\ a_last.ret.ok =>
                      /\ lister.way = "Three"
                      /\ lister.l.prefix = path
                      /\ ~lister.l.flat

\* a recursive list of "d/a" without the native flag returned the flat
\* lister of "d/" behind the prefix filter
C12_Witness ==
    /\ Listed /\ ~LWR /\ a_last.recursive
    /\ a_last.path = pDa
    /\ lister.way = "Four"
    /\ lister.l.lister.root = pD

Delegated(op) ==
    /\ a_last.calls = <<InnerCall(op, a_last.path, FALSE, None)>>
    /\ a_last.ret = a_last.answers[1]

\* C13: create_dir dispatches on the native capabilities: with native
\* create_dir, and also when neither create_dir nor both write_can_empty
\* and list are native, it makes exactly one inner create_dir call and
\* returns its result; with write_can_empty and list (and no create_dir) it
\* opens one inner write at the path, writes nothing, closes it, never calls
\* inner create_dir, returns the error of the open or of the close that
\* failed and success only if both succeeded; it never returns success when
\* an inner call it made failed
C13_CreateDirDispatch ==
    a_last.op = "create_dir" =>
        LET cap == info.native
            open == InnerCall("write", a_last.path, FALSE, None)
            close == InnerCall("writer.close", a_last.path, FALSE, None)
        IN /\ IF cap.create_dir \/ ~(cap.write_can_empty /\ cap.list)
              THEN Delegated("create_dir")
              ELSE IF ~a_last.answers[1].ok
              THEN a_last.calls = <<open>> /\ a_last.ret = a_last.answers[1]
              ELSE /\ a_last.calls = <<open, close>>
                   /\ a_last.ret = IF a_last.answers[2].ok THEN Ok(Unit)
                                   ELSE a_last.answers[2]
           /\ a_last.ret.ok =>
                 \A i \in 1..Len(a_last.answers) : a_last.answers[i].ok

\* a directory was made by an empty write that opened and closed
C13_Witness ==
    /\ a_last.op = "create_dir"
    /\ ~info.native.create_dir
    /\ Len(a_last.calls) = 2
    /\ a_last.calls[2].op = "writer.close"
    /\ a_last.ret = Ok(Unit)

\* stat of a directory path other than the root
StatDir ==
    /\ a_last.op = "stat"
    /\ a_last.path # Root
    /\ EndsWithSlash(a_last.path)

\* C14: stat of a path other than "/" that ends with "/", on a backend with
\* native create_dir, calls the inner stat exactly once and nothing else,
\* also when list_with_recursive is native too; metadata of a file becomes
\* NotFound "stat expected a directory, but found a file", any other
\* metadata and any inner error are returned unchanged
C14_StatDirByInnerStat ==
    (StatDir /\ info.native.create_dir) =>
        LET inner == a_last.answers[1]
        IN /\ a_last.calls = <<InnerCall("stat", a_last.path, FALSE, None)>>
           /\ a_last.ret =
                 IF inner.ok /\ inner.val.mode = "FILE"
                 THEN Err(NotFound("stat expected a directory, but found a file"))
                 ELSE inner

\* with create_dir and list_with_recursive both native, the inner stat of
\* "d/" returned a file and the layer answered NotFound
C14_Witness ==
    /\ StatDir /\ info.native.create_dir /\ LWR
    /\ a_last.answers[1].ok
    /\ a_last.answers[1].val.mode = "FILE"
    /\ ~a_last.ret.ok
    /\ a_last.ret.err.kind = "NotFound"

\* C15: stat of a path other than "/" that ends with "/", on a backend with
\* native list_with_recursive and without native create_dir, makes one
\* recursive inner list at the path with limit 1 and never an inner stat;
\* an error of that list or of the lister's first next is returned
\* unchanged; otherwise the result is DIR metadata exactly when the lister
\* yields an entry, and NotFound "the directory is not found" when it
\* yields none
C15_StatDirByListing ==
    (StatDir /\ LWR /\ ~info.native.create_dir) =>
        LET path == a_last.path
            list == InnerCall("list", path, TRUE, Some(1))
            next == InnerCall("lister.next", path, TRUE, Some(1))
            yields == Listing(path, TRUE) # <<>>
        IN /\ \A i \in 1..Len(a_last.calls) : a_last.calls[i].op # "stat"
           /\ IF ~a_last.answers[1].ok
              THEN a_last.calls = <<list>> /\ a_last.ret = a_last.answers[1]
              ELSE /\ a_last.calls = <<list, next>>
                   /\ IF ~a_last.answers[2].ok
                      THEN a_last.ret = a_last.answers[2]
                      ELSE /\ a_last.ret = Ok(Metadata("DIR", 0)) <=> yields
                           /\ ~yields =>
                                 a_last.ret
                                     = Err(NotFound("the directory is not found"))

\* the listing of "x/" yielded nothing and stat answered NotFound
C15_Witness ==
    /\ StatDir /\ LWR /\ ~info.native.create_dir
    /\ a_last.path = pX
    /\ Len(a_last.calls) = 2
    /\ a_last.answers[2].ok
    /\ a_last.ret = Err(NotFound("the directory is not found"))

\* the listing of "d/" yielded an entry and stat answered DIR
C15_WitnessFound ==
    /\ StatDir /\ LWR /\ ~info.native.create_dir
    /\ a_last.path = pD
    /\ a_last.ret = Ok(Metadata("DIR", 0))

\* the inner list calls the accessor made in its last call
AccessorListCalls ==
    {a_last.calls[i] : i \in {j \in 1..Len(a_last.calls) : a_last.calls[j].op = "list"}}

\* C20: an inner list call of the accessor, from list or from stat, asks
\* for a recursive listing only on a backend whose list_with_recursive is
\* native; without it every inner list call of the accessor is
\* non-recursive, and a recursive list request makes no inner call at all,
\* none being made until the lister it returned is pulled
C20_RecursiveOnlyWhenNative ==
    /\ \A c \in AccessorListCalls : c.recursive => LWR
    /\ (Listed /\ a_last.recursive /\ ~LWR) =>
          /\ a_last.calls = <<>>
          /\ lister.way \in {"Two", "Four"}
          /\ l_log = NoLog =>
                LET flat == IF lister.way = "Two" THEN lister.l ELSE lister.l.lister
                IN ~flat.started /\ flat.stack = <<>>

\* a recursive list of "d/" without the native flag has returned a flat
\* lister that was not pulled and no inner call was made
C20_Witness ==
    /\ Listed /\ a_last.recursive /\ ~LWR
    /\ a_last.path = pD
    /\ a_last.ret.ok
    /\ lister.way = "Two"
    /\ l_log = NoLog

(* ---------------------------------------------------------------------- *)
(* Properties of the flat lister behind a recursive list                    *)
(* ---------------------------------------------------------------------- *)
\* the tree under dir in pre-order: each entry of a directory in the order
\* the backend lists it, a directory followed at once by what lies in it
RECURSIVE Walk(_), WalkAll(_)
WalkAll(entries) ==
    IF entries = <<>> THEN <<>>
    ELSE LET e == Head(entries)
         IN <<e>> \o (IF e.mode = "DIR" THEN Walk(e.path) ELSE <<>>)
                 \o WalkAll(Tail(entries))

Walk(dir) == WalkAll(Listing(dir, FALSE))

\* a recursive list of a directory path on a backend without the native
\* flag, none of whose inner calls has failed so far
FlatListed ==
    /\ Listed /\ a_last.recursive /\ ~LWR
    /\ EndsWithSlash(a_last.path)
    /\ a_last.ret.ok
    /\ l_log.errors = 0

\* C11: a recursive listing of a directory path on a backend without
\* native list_with_recursive, as long as no inner call fails, yields the
\* tree under the path in pre-order: what it has yielded so far is the
\* beginning of that order, and at end-of-stream it has yielded every
\* descendant exactly once, each directory before every entry inside it and
\* the entries of a directory in the order the backend listed them ("d/"
\* listed as [d/ab, d/b/, d/ac] and "d/b/" as [d/b/c] yields exactly
\* [d/ab, d/b/, d/b/c, d/ac])
C11_FlatListingIsPreOrder ==
    FlatListed =>
        LET out == l_log.out
            all == Walk(a_last.path)
        IN /\ Len(out) <= Len(all)
           /\ out = SubSeq(all, 1, Len(out))
           /\ l_log.ended =>
                 /\ out = all
                 /\ {out[i] : i \in 1..Len(out)}
                       = LET below == Listing(a_last.path, TRUE)
                         IN {below[k] : k \in 1..Len(below)}
                 /\ \A i, j \in 1..Len(out) :
                       /\ i # j => out[i] # out[j]
                       /\ (i # j /\ out[i].mode = "DIR"
                              /\ StartsWith(out[j].path, out[i].path)) => i < j
                 /\ a_last.path = pD =>
                       out = << Entry(pDab, "FILE"), Entry(pDb, "DIR"),
                                Entry(pDbc, "FILE"), Entry(pDac, "FILE") >>

\* the recursive listing of "d/" ran to its end: the directory "d/b/" came
\* out second and its file third
C11_Witness ==
    /\ FlatListed
    /\ a_last.path = pD
    /\ l_log.ended
    /\ Len(l_log.out) = 4
    /\ l_log.out[2].mode = "DIR"

\* the flat lister a recursive list returned, bare or behind a prefix filter
Flat == IF lister.way = "Two" THEN lister.l ELSE lister.l.lister

FlatHeld == lister.way \in {"Two", "Four"}

\* C18: a caller that keeps calling next() on the flat lister of a finite
\* tree is eventually told end-of-stream, the stack of open directory
\* listers being empty then; and whenever opening or advancing a directory
\* lister fails during a next(), that next() returns this very error
C18_FlatListerEndsAndSurfacesErrors ==
    /\ FlatHeld ~> (FlatHeld /\ l_log.ended /\ Flat.started /\ Flat.stack = <<>>)
    /\ [](FlatHeld /\ l_log.fault # None
            => l_log.last = ErrEntry(Unwrap(l_log.fault)))

\* the listing of "d/" returned an error of an inner call, opened "d/b/",
\* and has reached end-of-stream
C18_Witness ==
    /\ FlatHeld
    /\ a_last.path = pD
    /\ l_log.errors > 0
    /\ \E i \in 1..Len(l_log.calls) : l_log.calls[i].path = pDb
    /\ l_log.ended
    /\ Flat.stack = <<>>

====
